---- MODULE Spec2Model ----
(***************************************************************************)
(* Model of config/custom_components/hotword_pocketsphinx.py.              *)
(*                                                                         *)
(* async_setup creates one threading.Event (detected_event), one           *)
(* termination flag (terminated), one decoder and one audio device, and    *)
(* registers two callbacks on the event loop: async_listen (service        *)
(* 'listen') and async_terminate (EVENT_HOMEASSISTANT_STOP).  Every call   *)
(* of async_listen is a session: it starts one worker thread running       *)
(* listen() and one executor job running detected_event.wait.              *)
(*                                                                         *)
(* Sessions are numbered 1..MaxSessions in the order of the listen calls.  *)
(* The event loop runs one callback at a time; worker threads and executor *)
(* threads interleave freely with it.                                      *)
(***************************************************************************)
EXTENDS Integers, Naturals, Sequences, FiniteSets, TLC

\* ---------------------------------------------------------------- bounds
\* number of listen service calls the environment issues
MaxSessions == 2
\* number of non-matching hypotheses the decoder emits to one worker
MaxHyps == 2

\* ------------------------------------------------------ program constants
DEFAULT_BUFFER_SIZE == 2048
STATE_IDLE == "idle"
STATE_LISTENING == "listening"
EVENT_HOTWORD_DETECTED == "hotword_detected"
DEFAULT_NAME == "hotword_pocketsphinx"

\* config values: the component name and the hot word
name == DEFAULT_NAME
hotword == "wakeword"
buffer_size == DEFAULT_BUFFER_SIZE

\* Python's None
None == "None"

Sessions == 1..MaxSessions

\* phrases the decoder can report in hyp.hypstr
Phrases == {hotword, "foo"}

\* results of audio_device.readinto(buf): a negative error code, or the
\* number of samples read
ReadResults == {-1, 0, buffer_size}

VARIABLES
    terminated,        \* async_setup's flag `terminated`
    detected_event,    \* flag of the threading.Event
    detected_phrase,   \* async_setup's slot `detected_phrase`
    status,            \* hass state of OBJECT_DECODER
    recording,         \* audio_device is started (inside a `with audio_device`)
    decoder,           \* utterance state of the shared decoder
    nSessions,         \* listen calls issued so far
    pc,                \* position of each session's worker thread in listen()
    co,                \* position of each session's async_listen coroutine
    phrase,            \* listen()'s local detected_phrase of each worker
    exitReason,        \* why each worker left its loop
    frames,            \* each worker has had a successful readinto
    lateRead,          \* each worker has had a readinto return with the flag raised
    nonMatch,          \* non-matching hypotheses seen by each worker
    beginCount,        \* start_utt calls made by each worker
    endCount,          \* end_utt calls made by each worker
    closeCount,        \* exits of `with audio_device` made by each worker
    setCount,          \* detected_event.set() calls made by each worker
    fired,             \* payloads of the hotword_detected events of each session
    published,         \* statuses async_listen published for each session
    shutdownRequested, \* async_terminate has run at least once
    termInLoop         \* async_terminate has run while the worker was in its loop

vars == << terminated, detected_event, detected_phrase, status, recording,
           decoder, nSessions, pc, co, phrase, exitReason, frames, lateRead, nonMatch,
           beginCount, endCount, closeCount, setCount, fired, published,
           shutdownRequested, termInLoop >>

globals == << terminated, detected_event, detected_phrase, status, nSessions,
              shutdownRequested, termInLoop >>

\* worker positions inside `while ...:` of listen()
LoopPcs == {"check", "read", "decode", "hyp"}
InLoop(s) == pc[s] \in LoopPcs

\* the thread of session s has ended (listen() returned or raised)
ThreadEnded(s) == pc[s] \in {"finished", "dead"}

\* the event loop is inside a blocking thread.join()
LoopBlocked == \E s \in Sessions : co[s] = "joining"

\* threading.Event.set(): raise the flag and release every thread blocked in wait()
Notify(c) == [s \in Sessions |-> IF c[s] = "blocked" THEN "woken" ELSE c[s]]

Init ==
    /\ terminated = FALSE
    /\ detected_event = FALSE
    /\ detected_phrase = None
    /\ status = STATE_IDLE
    /\ recording = FALSE
    /\ decoder = "NoUtterance"
    /\ nSessions = 0
    /\ pc = [s \in Sessions |-> "none"]
    /\ co = [s \in Sessions |-> "none"]
    /\ phrase = [s \in Sessions |-> None]
    /\ exitReason = [s \in Sessions |-> "none"]
    /\ frames = [s \in Sessions |-> FALSE]
    /\ lateRead = [s \in Sessions |-> FALSE]
    /\ nonMatch = [s \in Sessions |-> 0]
    /\ beginCount = [s \in Sessions |-> 0]
    /\ endCount = [s \in Sessions |-> 0]
    /\ closeCount = [s \in Sessions |-> 0]
    /\ setCount = [s \in Sessions |-> 0]
    /\ fired = [s \in Sessions |-> << >>]
    /\ published = [s \in Sessions |-> << >>]
    /\ shutdownRequested = FALSE
    /\ termInLoop = [s \in Sessions |-> FALSE]

\* ------------------------------------------------------------ event loop

\* async_listen up to its `yield from`: reset the shared slots, publish
\* 'listening', clear the event, start the worker and submit the wait
AsyncListen ==
    /\ ~LoopBlocked
    /\ nSessions < MaxSessions
    /\ LET s == nSessions + 1 IN
        /\ nSessions' = s
        /\ terminated' = FALSE
        /\ detected_phrase' = None
        /\ status' = STATE_LISTENING
        /\ published' = [published EXCEPT ![s] = Append(@, STATE_LISTENING)]
        /\ detected_event' = FALSE
        /\ pc' = [pc EXCEPT ![s] = "enter"]
        /\ co' = [co EXCEPT ![s] = "pending"]
    /\ UNCHANGED << recording, decoder, phrase, exitReason, frames, lateRead, nonMatch,
                    beginCount, endCount, closeCount, setCount, fired,
                    shutdownRequested, termInLoop >>

\* the executor thread calls detected_event.wait()
ExecutorWait(s) ==
    /\ co[s] = "pending"
    /\ co' = [co EXCEPT ![s] = IF detected_event THEN "woken" ELSE "blocked"]
    /\ UNCHANGED << globals, recording, decoder, pc, phrase, exitReason,
                    frames, lateRead, nonMatch, beginCount, endCount, closeCount,
                    setCount, fired, published >>

\* Resume with the flag test inverted (`if terminated:`)
Resume_Inverted(s) ==
    /\ ~LoopBlocked
    /\ co[s] = "woken"
    /\ co' = [co EXCEPT ![s] = IF terminated THEN "joining" ELSE "done"]
    /\ UNCHANGED << globals, recording, decoder, pc, phrase, exitReason,
                    frames, lateRead, nonMatch, beginCount, endCount, closeCount,
                    setCount, fired, published >>

\* async_listen resumes after the wait: `if not terminated: thread.join()`
Resume(s) ==
    /\ ~LoopBlocked
    /\ co[s] = "woken"
    /\ co' = [co EXCEPT ![s] = IF ~terminated THEN "joining" ELSE "done"]
    /\ UNCHANGED << globals, recording, decoder, pc, phrase, exitReason,
                    frames, lateRead, nonMatch, beginCount, endCount, closeCount,
                    setCount, fired, published >>

\* thread.join() returns; publish 'idle' and fire hotword_detected
JoinReturn(s) ==
    /\ co[s] = "joining"
    /\ ThreadEnded(s)
    /\ status' = STATE_IDLE
    /\ published' = [published EXCEPT ![s] = Append(@, STATE_IDLE)]
    /\ fired' = [fired EXCEPT ![s] =
                    Append(@, [event |-> EVENT_HOTWORD_DETECTED, name |-> name])]
    /\ co' = [co EXCEPT ![s] = "done"]
    /\ UNCHANGED << terminated, detected_event, detected_phrase, nSessions,
                    shutdownRequested, termInLoop, recording, decoder, pc,
                    phrase, exitReason, frames, lateRead, nonMatch, beginCount, endCount,
                    closeCount, setCount >>

\* AsyncTerminate that also publishes 'idle'
AsyncTerminate_PublishIdle ==
    /\ ~LoopBlocked
    /\ terminated' = TRUE
    /\ detected_event' = TRUE
    /\ co' = Notify(co)
    /\ status' = STATE_IDLE
    /\ shutdownRequested' = TRUE
    /\ termInLoop' = [s \in Sessions |-> termInLoop[s] \/ InLoop(s)]
    /\ UNCHANGED << detected_phrase, nSessions, recording, decoder, pc,
                    phrase, exitReason, frames, lateRead, nonMatch, beginCount,
                    endCount, closeCount, setCount, fired, published >>

\* async_terminate: raise the flag and set the event
AsyncTerminate ==
    /\ ~LoopBlocked
    /\ terminated' = TRUE
    /\ detected_event' = TRUE
    /\ co' = Notify(co)
    /\ shutdownRequested' = TRUE
    /\ termInLoop' = [s \in Sessions |-> termInLoop[s] \/ InLoop(s)]
    /\ UNCHANGED << detected_phrase, status, nSessions, recording, decoder, pc,
                    phrase, exitReason, frames, lateRead, nonMatch, beginCount, endCount,
                    closeCount, setCount, fired, published >>

\* ---------------------------------------------------------- worker thread

\* `with audio_device:` entry; claiming the device may fail, which raises in
\* the thread before anything else of listen() has run
WorkerEnterDevice(s) ==
    /\ pc[s] = "enter"
    /\ \E ok \in BOOLEAN :
        IF ok
        THEN /\ recording' = TRUE
             /\ pc' = [pc EXCEPT ![s] = "begin"]
             /\ UNCHANGED exitReason
        ELSE /\ pc' = [pc EXCEPT ![s] = "dead"]
             /\ exitReason' = [exitReason EXCEPT ![s] = "openfail"]
             /\ UNCHANGED recording
    /\ UNCHANGED << globals, decoder, co, phrase, frames, lateRead, nonMatch, beginCount,
                    endCount, closeCount, setCount, fired, published >>

\* `with decoder.start_utterance():` entry
WorkerStartUtterance(s) ==
    /\ pc[s] = "begin"
    /\ decoder' = "InUtterance"
    /\ beginCount' = [beginCount EXCEPT ![s] = @ + 1]
    /\ pc' = [pc EXCEPT ![s] = "check"]
    /\ UNCHANGED << globals, recording, co, phrase, exitReason, frames, lateRead,
                    nonMatch, endCount, closeCount, setCount, fired, published >>

\* WorkerCheck testing the flag only before the first frame
WorkerCheck_FirstOnly(s) ==
    /\ pc[s] = "check"
    /\ IF ~terminated \/ frames[s]
       THEN /\ pc' = [pc EXCEPT ![s] = "read"]
            /\ UNCHANGED exitReason
       ELSE /\ pc' = [pc EXCEPT ![s] = "exit"]
            /\ exitReason' = [exitReason EXCEPT ![s] = "terminated"]
    /\ UNCHANGED << globals, recording, decoder, co, phrase, frames, lateRead,
                    nonMatch, beginCount, endCount, closeCount, setCount, fired,
                    published >>

\* `while not terminated`
WorkerCheck(s) ==
    /\ pc[s] = "check"
    /\ IF ~terminated
       THEN /\ pc' = [pc EXCEPT ![s] = "read"]
            /\ UNCHANGED exitReason
       ELSE /\ pc' = [pc EXCEPT ![s] = "exit"]
            /\ exitReason' = [exitReason EXCEPT ![s] = "terminated"]
    /\ UNCHANGED << globals, recording, decoder, co, phrase, frames, lateRead, nonMatch,
                    beginCount, endCount, closeCount, setCount, fired, published >>

\* `and audio_device.readinto(buf) >= 0`
WorkerRead(s) ==
    /\ pc[s] = "read"
    /\ \E r \in ReadResults :
        IF r >= 0
        THEN /\ pc' = [pc EXCEPT ![s] = "decode"]
             /\ frames' = [frames EXCEPT ![s] = TRUE]
             /\ UNCHANGED exitReason
        ELSE /\ pc' = [pc EXCEPT ![s] = "exit"]
             /\ exitReason' = [exitReason EXCEPT ![s] = "readerror"]
             /\ UNCHANGED frames
    /\ lateRead' = [lateRead EXCEPT ![s] = @ \/ terminated]
    /\ UNCHANGED << globals, recording, decoder, co, phrase, nonMatch,
                    beginCount, endCount, closeCount, setCount, fired, published >>

\* decoder.process_raw; hyp = decoder.hyp(); `if hyp:` enters
\* `with decoder.end_utterance():` and assigns the local detected_phrase.
\* A decoder fault raises: the generator-based start_utterance context does
\* not run its end_utt, `with audio_device` still exits.
WorkerDecode(s) ==
    /\ pc[s] = "decode"
    /\ \/ /\ pc' = [pc EXCEPT ![s] = "check"]
          /\ UNCHANGED << decoder, endCount, phrase, nonMatch, exitReason >>
       \/ \E h \in Phrases :
          /\ h # hotword => nonMatch[s] < MaxHyps
          /\ decoder' = "NoUtterance"
          /\ endCount' = [endCount EXCEPT ![s] = @ + 1]
          /\ phrase' = [phrase EXCEPT ![s] = h]
          /\ nonMatch' = [nonMatch EXCEPT ![s] = IF h # hotword THEN @ + 1 ELSE @]
          /\ pc' = [pc EXCEPT ![s] = "hyp"]
          /\ UNCHANGED exitReason
       \/ /\ pc' = [pc EXCEPT ![s] = "close"]
          /\ exitReason' = [exitReason EXCEPT ![s] = "fault"]
          /\ UNCHANGED << decoder, endCount, phrase, nonMatch >>
    /\ UNCHANGED << globals, recording, co, frames, lateRead, beginCount, closeCount,
                    setCount, fired, published >>

\* WorkerCompare breaking on any hypothesis (no comparison with the hot word)
WorkerCompare_AnyHyp(s) ==
    /\ pc[s] = "hyp"
    /\ decoder' = "InUtterance"
    /\ beginCount' = [beginCount EXCEPT ![s] = @ + 1]
    /\ pc' = [pc EXCEPT ![s] = "exit"]
    /\ exitReason' = [exitReason EXCEPT ![s] = "match"]
    /\ UNCHANGED << globals, recording, co, phrase, frames, lateRead, nonMatch, endCount,
                    closeCount, setCount, fired, published >>

\* `if detected_phrase == hotword: break`, leaving `with decoder.end_utterance()`
\* (which starts a fresh utterance) on either branch
WorkerCompare(s) ==
    /\ pc[s] = "hyp"
    /\ decoder' = "InUtterance"
    /\ beginCount' = [beginCount EXCEPT ![s] = @ + 1]
    /\ IF phrase[s] = hotword
       THEN /\ pc' = [pc EXCEPT ![s] = "exit"]
            /\ exitReason' = [exitReason EXCEPT ![s] = "match"]
       ELSE /\ pc' = [pc EXCEPT ![s] = "check"]
            /\ UNCHANGED exitReason
    /\ UNCHANGED << globals, recording, co, phrase, frames, lateRead, nonMatch, endCount,
                    closeCount, setCount, fired, published >>

\* WorkerEndUtterance that ends the utterance only after a match (a plain
\* end_utt() call after the `break` instead of a scoped one)
WorkerEndUtterance_MatchOnly(s) ==
    /\ pc[s] = "exit"
    /\ IF exitReason[s] = "match"
       THEN /\ decoder' = "NoUtterance"
            /\ endCount' = [endCount EXCEPT ![s] = @ + 1]
       ELSE UNCHANGED << decoder, endCount >>
    /\ pc' = [pc EXCEPT ![s] = "close"]
    /\ UNCHANGED << globals, recording, co, phrase, exitReason, frames, lateRead,
                    nonMatch, beginCount, closeCount, setCount, fired, published >>

\* leaving `with decoder.start_utterance():`
WorkerEndUtterance(s) ==
    /\ pc[s] = "exit"
    /\ decoder' = "NoUtterance"
    /\ endCount' = [endCount EXCEPT ![s] = @ + 1]
    /\ pc' = [pc EXCEPT ![s] = "close"]
    /\ UNCHANGED << globals, recording, co, phrase, exitReason, frames, lateRead,
                    nonMatch, beginCount, closeCount, setCount, fired, published >>

\* WorkerExitDevice that does not release the device after a read error
WorkerExitDevice_Leak(s) ==
    /\ pc[s] = "close"
    /\ IF exitReason[s] = "readerror"
       THEN UNCHANGED << recording, closeCount >>
       ELSE /\ recording' = FALSE
            /\ closeCount' = [closeCount EXCEPT ![s] = @ + 1]
    /\ pc' = [pc EXCEPT ![s] = IF exitReason[s] = "fault" THEN "dead" ELSE "set"]
    /\ UNCHANGED << globals, decoder, co, phrase, exitReason, frames, lateRead, nonMatch,
                    beginCount, endCount, setCount, fired, published >>

\* leaving `with audio_device:`; a pending exception then ends the thread
WorkerExitDevice(s) ==
    /\ pc[s] = "close"
    /\ recording' = FALSE
    /\ closeCount' = [closeCount EXCEPT ![s] = @ + 1]
    /\ pc' = [pc EXCEPT ![s] = IF exitReason[s] = "fault" THEN "dead" ELSE "set"]
    /\ UNCHANGED << globals, decoder, co, phrase, exitReason, frames, lateRead, nonMatch,
                    beginCount, endCount, setCount, fired, published >>

\* detected_event.set(), the last statement of listen()
WorkerSet(s) ==
    /\ pc[s] = "set"
    /\ detected_event' = TRUE
    /\ co' = Notify(co)
    /\ setCount' = [setCount EXCEPT ![s] = @ + 1]
    /\ pc' = [pc EXCEPT ![s] = "finished"]
    /\ UNCHANGED << terminated, detected_phrase, status, nSessions,
                    shutdownRequested, termInLoop, recording, decoder, phrase,
                    exitReason, frames, lateRead, nonMatch, beginCount, endCount,
                    closeCount, fired, published >>

Worker(s) ==
    \/ WorkerEnterDevice(s)
    \/ WorkerStartUtterance(s)
    \/ WorkerCheck(s)
    \/ WorkerRead(s)
    \/ WorkerDecode(s)
    \/ WorkerCompare(s)
    \/ WorkerEndUtterance(s)
    \/ WorkerExitDevice(s)
    \/ WorkerSet(s)

Next ==
    \/ AsyncListen
    \/ AsyncTerminate
    \/ \E s \in Sessions : ExecutorWait(s)
    \/ \E s \in Sessions : Resume(s)
    \/ \E s \in Sessions : JoinReturn(s)
    \/ \E s \in Sessions : Worker(s)

Spec == Init /\ [][Next]_vars

\* Threads that can run do run; the event loop runs its ready callbacks.
\* Nothing obliges the environment to call the service or to stop hass.
FairSpec ==
    /\ Spec
    /\ \A s \in Sessions : WF_vars(Worker(s))
    /\ \A s \in Sessions : WF_vars(ExecutorWait(s))
    /\ \A s \in Sessions : WF_vars(Resume(s))
    /\ \A s \in Sessions : WF_vars(JoinReturn(s))

\* ------------------------------------------------------------ properties

Contains(seq, x) == \E i \in 1..Len(seq) : seq[i] = x

\* the loop of worker s was left for one of the three ordinary reasons
OrdinaryExit(s) == exitReason[s] \in {"match", "terminated", "readerror"}

\* worker s is inside `with audio_device:`
HoldsDevice(s) == pc[s] \in {"begin", "exit", "close"} \cup LoopPcs

\* hypotheses decoded by worker s so far
Hypotheses(s) == nonMatch[s] + (IF phrase[s] = hotword THEN 1 ELSE 0)

\* C1: at most one session is Listening (its worker inside the read-decode
\* loop) at any instant; a listen call during a session starts no second worker.
C1_AtMostOneListening ==
    Cardinality({s \in Sessions : InLoop(s)}) <= 1

\* C2: a session whose loop ended by a read error after at least one
\* successful frame and no hypothesis has, once over, closed the audio device
\* and fired no hotword_detected event.
C2_ReadErrorNoNotification ==
    \A s \in Sessions :
        ( /\ exitReason[s] = "readerror"
          /\ frames[s]
          /\ phrase[s] = None
          /\ ThreadEnded(s)
          /\ co[s] = "done" )
        => (closeCount[s] = 1 /\ fired[s] = << >>)

\* C3: a session during whose loop async_terminate ran (and whose decoder
\* did not fault) fires no hotword_detected event and publishes no 'idle'
\* status.
C3_ShutdownSilent ==
    \A s \in Sessions :
        (termInLoop[s] /\ exitReason[s] # "fault")
        => (fired[s] = << >> /\ ~Contains(published[s], STATE_IDLE))

\* C4: whenever the coroutine of a session has resumed from its wait, the
\* worker of that session no longer holds the audio device.
C4_ResumeAfterRelease ==
    \A s \in Sessions :
        co[s] \in {"joining", "done"} => ~HoldsDevice(s)

\* C5: every worker leaves `with audio_device` at most once, exactly once
\* when its loop was left by match, termination or read error, and always
\* before it sets the completion event.
C5_ReleaseOnceBeforeSignal ==
    \A s \in Sessions :
        /\ closeCount[s] <= 1
        /\ (OrdinaryExit(s) /\ pc[s] \in {"set", "finished"}) => closeCount[s] = 1
        /\ setCount[s] >= 1 => closeCount[s] = 1
        /\ setCount[s] <= 1

C5_Witness ==
    \E s, t \in Sessions :
        /\ pc[s] = "finished" /\ exitReason[s] = "terminated" /\ closeCount[s] = 1
        /\ pc[t] = "finished" /\ exitReason[t] = "readerror" /\ closeCount[t] = 1

\* C6 (as stated): a worker whose loop was left by match, termination or read
\* error has called end_utt exactly once.
C6_EndUtteranceOnce ==
    \A s \in Sessions :
        (OrdinaryExit(s) /\ pc[s] \in {"close", "set", "finished"})
        => endCount[s] = 1

\* C6 (amended): end_utt is called once per utterance begun: the calls never
\* run ahead of the start_utt calls nor fall more than one behind, and a
\* worker whose loop was left by match, termination or read error has made
\* as many end_utt as start_utt calls, one more than it decoded hypotheses.
C6_EndPerUtterance ==
    \A s \in Sessions :
        /\ endCount[s] <= beginCount[s]
        /\ beginCount[s] <= endCount[s] + 1
        /\ (OrdinaryExit(s) /\ pc[s] \in {"close", "set", "finished"})
           => (endCount[s] = beginCount[s] /\ endCount[s] = 1 + Hypotheses(s))

C6_Witness ==
    \E s, t \in Sessions :
        /\ pc[s] = "finished" /\ exitReason[s] = "match"
        /\ nonMatch[s] = 2 /\ endCount[s] = 4
        /\ pc[t] = "finished" /\ exitReason[t] \in {"terminated", "readerror"}
        /\ nonMatch[t] = 0 /\ endCount[t] = 1

\* C7: with no shutdown request, a session whose hypotheses were non-matching
\* phrases followed by the hot word fires exactly one hotword_detected event,
\* with the configured name, and not before its worker decoded the match.
C7_OneDetection ==
    \A s \in Sessions :
        ~shutdownRequested =>
            /\ Len(fired[s]) <= 1
            /\ \A i \in 1..Len(fired[s]) :
                   fired[s][i] = [event |-> EVENT_HOTWORD_DETECTED, name |-> DEFAULT_NAME]
            /\ (exitReason[s] = "match" /\ co[s] = "done") => Len(fired[s]) = 1
            /\ (fired[s] # << >> /\ exitReason[s] \notin {"readerror", "fault", "openfail"})
               => (exitReason[s] = "match" /\ phrase[s] = hotword /\ ThreadEnded(s))

C7_Witness ==
    \E s \in Sessions :
        /\ ~shutdownRequested
        /\ nonMatch[s] = 2
        /\ exitReason[s] = "match"
        /\ co[s] = "done"
        /\ Len(fired[s]) = 1

\* C8: a step in which a worker decodes a hypothesis ends the utterance; the
\* step that follows a non-matching hypothesis begins a fresh utterance and
\* returns to the loop test without an exit reason; the loop is left by match
\* only in a step taken with the hot word as hypothesis.
C8_NonMatchContinues ==
    [][ \A s \in Sessions :
          /\ (pc[s] = "decode" /\ pc'[s] = "hyp")
             => (endCount'[s] = endCount[s] + 1 /\ decoder' = "NoUtterance")
          /\ (pc[s] = "hyp" /\ pc'[s] # "hyp" /\ phrase[s] # hotword)
             => /\ pc'[s] = "check"
                /\ exitReason'[s] = "none"
                /\ beginCount'[s] = beginCount[s] + 1
                /\ decoder' = "InUtterance"
          /\ (exitReason[s] # "match" /\ exitReason'[s] = "match")
             => (pc[s] = "hyp" /\ phrase[s] = hotword)
      ]_vars

C8_Witness ==
    \E s \in Sessions :
        /\ nonMatch[s] >= 1
        /\ phrase[s] # hotword
        /\ pc[s] = "read"
        /\ exitReason[s] = "none"

\* C9: a session whose claim of the audio device failed never published
\* 'listening'.
C9_OpenFailureBeforeListening ==
    \A s \in Sessions :
        exitReason[s] = "openfail" => ~Contains(published[s], STATE_LISTENING)

\* C10: once a worker has left its loop by match, read error or observed
\* termination request, the async_listen call of its session eventually
\* returns (runs in which some worker dies of a device or decoder failure
\* are left aside, so that a violation owes nothing to such a failure).
C10_ListenReturns ==
    \A s \in Sessions :
        OrdinaryExit(s) ~>
            (co[s] = "done" \/ \E t \in Sessions : exitReason[t] \in {"openfail", "fault"})

\* C11: a worker that died of a decoder fault in its loop body has released
\* the audio device, ended every utterance it began and set the completion
\* event.
C11_FaultContained ==
    \A s \in Sessions :
        (exitReason[s] = "fault" /\ ThreadEnded(s))
        => (closeCount[s] = 1 /\ endCount[s] = beginCount[s] /\ setCount[s] = 1)

\* the variables of the program (the history variables left out)
progVars == << terminated, detected_event, detected_phrase, status, recording,
               decoder, nSessions, pc, co, phrase >>

\* C12: a call of async_terminate changes no status, publishes nothing and
\* fires nothing, leaves the flag and the event raised, and changes nothing
\* of the program's state when the flag and the event are raised already;
\* it can run whenever the event loop is free.
C12_TerminateIdempotent ==
    [][ /\ AsyncTerminate =>
            /\ status' = status /\ published' = published /\ fired' = fired
            /\ terminated' /\ detected_event'
            /\ (terminated /\ detected_event) => UNCHANGED progVars
        /\ ~LoopBlocked => ENABLED AsyncTerminate
      ]_vars

C12_Witness ==
    /\ shutdownRequested
    /\ nSessions = 0
    /\ terminated /\ detected_event
    /\ status = STATE_IDLE
    /\ \A s \in Sessions : fired[s] = << >> /\ published[s] = << >>
    /\ ENABLED (AsyncTerminate /\ UNCHANGED progVars)

\* C13: while the worker of a session is in its loop, a termination flag that
\* is true stays true.
C13_FlagMonotonic ==
    [][ (terminated /\ \E s \in Sessions : InLoop(s)) => terminated' ]_vars

\* C14: a session whose worker left the loop by a match, with no shutdown
\* request during the loop, has, once its async_listen call is over,
\* published 'idle' and fired hotword_detected.
C14_MatchPublishes ==
    \A s \in Sessions :
        (exitReason[s] = "match" /\ ~termInLoop[s] /\ co[s] = "done")
        => (fired[s] # << >> /\ Contains(published[s], STATE_IDLE))

\* steps of a cancelled worker: while there is a single session, a readinto
\* that returns with the flag raised is the only one of its worker; a loop
\* test made with the flag raised leaves the loop; a worker that has observed
\* the flag is never in the loop again and has released the device when it
\* signals
CancelSteps ==
    [][ nSessions' = 1 =>
          \A s \in Sessions :
            /\ (pc[s] = "read" /\ pc'[s] # "read" /\ terminated) => ~lateRead[s]
            /\ (pc[s] = "check" /\ pc'[s] # "check" /\ terminated)
               => (pc'[s] = "exit" /\ exitReason'[s] = "terminated")
            /\ exitReason[s] = "terminated"
               => (~InLoop(s) /\ pc'[s] \in {"exit", "close", "set", "finished"})
            /\ (exitReason'[s] = "terminated" /\ pc'[s] \in {"set", "finished"})
               => closeCount'[s] = 1
      ]_vars

C15_Witness ==
    /\ nSessions = 1
    /\ lateRead[1]
    /\ exitReason[1] = "terminated"
    /\ pc[1] = "finished"
    /\ closeCount[1] = 1

\* progress of a cancelled worker: with a single session, a worker in its
\* loop with the flag raised eventually has released the device
CancelProgress ==
    (nSessions = 1 /\ terminated /\ InLoop(1)) ~> (closeCount[1] = 1 \/ nSessions > 1)

\* C15: with a single session and no further listen call, after
\* async_terminate the worker completes at most the one readinto whose flag
\* test preceded the call, reads no frame once it has observed the flag, and
\* then leaves the loop and releases the audio device.
C15_BoundedCancellation == CancelSteps /\ CancelProgress

\* C16: whenever a coroutine is inside thread.join(), the worker it joins is
\* no longer in its read-decode loop.
C16_JoinAfterLoop ==
    \A s \in Sessions :
        co[s] = "joining" => ~InLoop(s)

\* C17: the value a worker has assigned to its detected_phrase is unset or
\* the hot word.
C17_PhraseIsHotword ==
    \A s \in Sessions :
        phrase[s] \in {None, hotword}

\* C18: with no shutdown request, once the coroutine of a session that ended
\* by a match has resumed, the slot detected_phrase that async_listen reset
\* holds the hot word.
C18_SlotHoldsHotword ==
    \A s \in Sessions :
        (~shutdownRequested /\ exitReason[s] = "match" /\ co[s] \in {"joining", "done"})
        => detected_phrase = hotword

\* C19: on the shared decoder every start_utt finds no utterance open, every
\* end_utt and every process_raw finds one open, and no utterance is open when
\* no worker is running (workers dead of a decoder fault left aside).
C19_UtteranceDiscipline ==
    [][ /\ \A s \in Sessions :
            /\ beginCount'[s] # beginCount[s] => decoder = "NoUtterance"
            /\ endCount'[s] # endCount[s] => decoder = "InUtterance"
            /\ (pc[s] = "decode" /\ pc'[s] # "decode") => decoder = "InUtterance"
        /\ (\A s \in Sessions : /\ pc'[s] \in {"none", "finished", "dead"}
                                /\ exitReason'[s] # "fault")
           => decoder' = "NoUtterance"
      ]_vars

\* no worker has died of a device or decoder failure
NoFailure == \A s \in Sessions : exitReason[s] \notin {"openfail", "fault"}

\* C20: the status is 'idle' or 'listening', it is 'listening' whenever a
\* worker is in its read-decode loop (as long as no worker has died of a
\* failure), and a session for which 'idle' was published has a worker that
\* no longer holds the audio device.
C20_StatusTracksSession ==
    /\ status \in {STATE_IDLE, STATE_LISTENING}
    /\ (NoFailure /\ \E s \in Sessions : InLoop(s)) => status = STATE_LISTENING
    /\ \A s \in Sessions :
           Contains(published[s], STATE_IDLE) => ThreadEnded(s)

====
